---- MODULE Spec2Model ----
(***************************************************************************)
(* A model of rodra-go/todo-app: the domain services of                    *)
(* todo_app/domain/services.py on top of the SQLAlchemy repository of      *)
(* todo_app/infrastructure/repositories.py and its `todos` table.          *)
(*                                                                         *)
(* Text is a sequence of one-character strings, so that strip, split and   *)
(* join are computed as Python computes them.  An Optional value is a      *)
(* sequence of length 0 (None) or 1 (the value).                           *)
(***************************************************************************)
EXTENDS Integers, Sequences, FiniteSets, TLC

\* ------------------------------------------------------------- bounds

\* The number of rows the table may hold.
MaxItems == 2
\* The last instant of the clock (instants are 0..MaxTime).
MaxTime == 1
\* The largest primary key the table hands out.
MaxId == MaxItems
\* The number of rows the table may hold when the repository is called on its
\* own, which is also the largest primary key it then hands out.
MaxRepoItems == 3

\* The longest list of items given to apply_filters.
MaxFilterLen == 2

\* ------------------------------------------------------------- Optional

None == <<>>

Some(x) == <<x>>

IsNone(o) == o = <<>>

Val(o) == o[1]

\* ------------------------------------------------------------- text

\* The characters str.strip() removes (the model's alphabet holds one).
Whitespace == {" "}

Comma == ","

RECURSIVE LStrip(_)
LStrip(s) ==
    IF s # <<>> /\ Head(s) \in Whitespace THEN LStrip(Tail(s)) ELSE s

RECURSIVE RStrip(_)
RStrip(s) ==
    IF s # <<>> /\ s[Len(s)] \in Whitespace
    THEN RStrip(SubSeq(s, 1, Len(s) - 1))
    ELSE s

\* str.strip()
Strip(s) == RStrip(LStrip(s))

\* str.split(sep) for a one-character separator: "" splits to [""].
RECURSIVE Split(_, _)
Split(s, sep) ==
    IF \A i \in 1..Len(s) : s[i] # sep
    THEN <<s>>
    ELSE LET i == CHOOSE k \in 1..Len(s) :
                      s[k] = sep /\ \A j \in 1..(k - 1) : s[j] # sep
         IN  <<SubSeq(s, 1, i - 1)>> \o Split(SubSeq(s, i + 1, Len(s)), sep)

\* sep.join(parts)
RECURSIVE Join(_, _)
Join(parts, sep) ==
    IF parts = <<>> THEN <<>>
    ELSE IF Len(parts) = 1 THEN parts[1]
    ELSE parts[1] \o <<sep>> \o Join(Tail(parts), sep)

\* [t.strip() for t in parts if t.strip()]
RECURSIVE StripNonBlank(_)
StripNonBlank(parts) ==
    IF parts = <<>> THEN <<>>
    ELSE LET t == Strip(Head(parts))
         IN  (IF t # <<>> THEN <<t>> ELSE <<>>) \o StripNonBlank(Tail(parts))

\* ui/helpers.py parse_tags
parse_tags(raw) == StripNonBlank(Split(raw, Comma))

\* ------------------------------------------------------------- enums

Status_PENDING == "Status.PENDING"

Status_DONE == "Status.DONE"

Status == {Status_PENDING, Status_DONE}

Priority_LOW == "Priority.LOW"

Priority_MEDIUM == "Priority.MEDIUM"

Priority_HIGH == "Priority.HIGH"

Priority == {Priority_LOW, Priority_MEDIUM, Priority_HIGH}

\* Enum.name
EnumName(e) ==
    CASE e = Status_PENDING -> "PENDING"
      [] e = Status_DONE -> "DONE"
      [] e = Priority_LOW -> "LOW"
      [] e = Priority_MEDIUM -> "MEDIUM"
      [] e = Priority_HIGH -> "HIGH"

\* Status[name]
StatusByName(n) == CHOOSE e \in Status : EnumName(e) = n

\* Priority[name]
PriorityByName(n) == CHOOSE e \in Priority : EnumName(e) = n

\* ------------------------------------------------------------- state

VARIABLES
    \* the rows of table `todos` (TodoORM), a set of records keyed by id
    rows,
    \* what datetime.utcnow() returns
    now,
    \* the last call: its operation, arguments and what it returned
    call,
    \* the run of toggle_done calls on one item that no other write to that
    \* item has interrupted: the item's id, the status it had before the
    \* first of them, and whether their number is odd (n = 1) or even (n = 2).
    \* A read (get, list_todos, list_all) leaves the table and the clock as
    \* they are, so a run with reads in it reaches the states of the run without
    \* them, and the tracking ends at a read.
    streak,
    \* what an update_todo that has read its item and not yet written it holds:
    \* the item repo.get returned, changed as the arguments say (None when no
    \* update_todo is between its two repository calls)
    pending

vars == <<rows, now, call, streak, pending>>

Times == 0..MaxTime

Ids == 1..MaxId

\* session.get(TodoORM, item_id)
SessionGet(item_id) ==
    IF \E r \in rows : r.id = item_id
    THEN Some(CHOOSE r \in rows : r.id = item_id)
    ELSE None

\* A key taken from the number of rows, not from the largest key.
RowCountPlusOne == Cardinality(rows) + 1

\* The primary key SQLite gives the next inserted row: the column is an
\* INTEGER PRIMARY KEY (a rowid alias, no AUTOINCREMENT keyword), so it is one
\* more than the largest key in the table.
NextRowId ==
    IF rows = {} THEN 1
    ELSE (CHOOSE i \in {r.id : r \in rows} : \A r \in rows : r.id <= i) + 1

\* SqlAlchemyTodoRepository._to_domain
ToDomain(orm) ==
    [id |-> Some(orm.id),
     title |-> orm.title,
     description |-> orm.description,
     status |-> StatusByName(orm.status),
     created_at |-> orm.created_at,
     updated_at |-> orm.updated_at,
     due_date |-> orm.due_date,
     priority |-> IF ~IsNone(orm.priority) /\ Val(orm.priority) # ""
                  THEN Some(PriorityByName(Val(orm.priority)))
                  ELSE None,
     tags |-> IF ~IsNone(orm.tags) /\ Val(orm.tags) # <<>>
              THEN StripNonBlank(Split(Val(orm.tags), Comma))
              ELSE <<>>]

\* The column values SqlAlchemyTodoRepository writes for a domain item
\* (add: all of them; update: all but id and created_at).
Columns(item) ==
    [title |-> item.title,
     description |-> item.description,
     status |-> EnumName(item.status),
     due_date |-> item.due_date,
     priority |-> IF ~IsNone(item.priority)
                  THEN Some(EnumName(Val(item.priority)))
                  ELSE None,
     tags |-> IF item.tags # <<>> THEN Some(Join(item.tags, Comma)) ELSE None]

\* ------------------------------------------------------------- repository
\* Each repository operation is a record: the table after it (rows), how the
\* call ended (outcome: "item", "none", "void" or "raised") and the item it
\* returned, if any.

\* add returning the caller's item with the new id, not the row read back.
\* add storing the row under the id the item carries, when it carries one.
add_keeps_given_id(item) ==
    LET c == Columns(item)
        id == IF IsNone(item.id) THEN NextRowId ELSE Val(item.id)
        orm == [id |-> id,
                title |-> c.title,
                description |-> c.description,
                status |-> c.status,
                created_at |-> item.created_at,
                updated_at |-> item.updated_at,
                due_date |-> c.due_date,
                priority |-> c.priority,
                tags |-> c.tags]
    IN  [rows |-> {r \in rows : r.id # id} \cup {orm},
         outcome |-> "item",
         item |-> Some(ToDomain(orm))]

add_returns_argument(item) ==
    LET c == Columns(item)
        orm == [id |-> NextRowId,
                title |-> c.title,
                description |-> c.description,
                status |-> c.status,
                created_at |-> item.created_at,
                updated_at |-> item.updated_at,
                due_date |-> c.due_date,
                priority |-> c.priority,
                tags |-> c.tags]
    IN  [rows |-> rows \cup {orm},
         outcome |-> "item",
         item |-> Some([item EXCEPT !.id = Some(NextRowId)])]

\* SqlAlchemyTodoRepository.add
add(item) ==
    LET c == Columns(item)
        orm == [id |-> NextRowId,
                title |-> c.title,
                description |-> c.description,
                status |-> c.status,
                created_at |-> item.created_at,
                updated_at |-> item.updated_at,
                due_date |-> c.due_date,
                priority |-> c.priority,
                tags |-> c.tags]
    IN  [rows |-> rows \cup {orm},
         outcome |-> "item",
         item |-> Some(ToDomain(orm))]

\* SqlAlchemyTodoRepository.get
get(item_id) ==
    LET orm == SessionGet(item_id)
    IN  IF IsNone(orm)
        THEN [rows |-> rows, outcome |-> "none", item |-> None]
        ELSE [rows |-> rows, outcome |-> "item", item |-> Some(ToDomain(Val(orm)))]

\* update writing every column the service sets, and not the status.
update_keeps_status(item) ==
    LET orm == SessionGet(Val(item.id))
    IN  IF IsNone(orm)
        THEN [rows |-> rows, outcome |-> "raised", item |-> None]
        ELSE LET c == Columns(item)
                 new == [Val(orm) EXCEPT !.title = c.title,
                                         !.description = c.description,
                                         !.updated_at = now,
                                         !.due_date = c.due_date,
                                         !.priority = c.priority,
                                         !.tags = c.tags]
             IN  [rows |-> (rows \ {Val(orm)}) \cup {new},
                  outcome |-> "item",
                  item |-> Some(ToDomain(new))]

\* update stamping updated_at with the item's created_at, not the clock.
update_stamps_created_at(item) ==
    LET orm == SessionGet(Val(item.id))
    IN  IF IsNone(orm)
        THEN [rows |-> rows, outcome |-> "raised", item |-> None]
        ELSE LET c == Columns(item)
                 new == [Val(orm) EXCEPT !.title = c.title,
                                         !.description = c.description,
                                         !.status = c.status,
                                         !.updated_at = item.created_at,
                                         !.due_date = c.due_date,
                                         !.priority = c.priority,
                                         !.tags = c.tags]
             IN  [rows |-> (rows \ {Val(orm)}) \cup {new},
                  outcome |-> "item",
                  item |-> Some(ToDomain(new))]

\* update answering a missing row as set_status does, with None.
update_none_when_missing(item) ==
    LET orm == SessionGet(Val(item.id))
    IN  IF IsNone(orm)
        THEN [rows |-> rows, outcome |-> "none", item |-> None]
        ELSE LET c == Columns(item)
                 new == [Val(orm) EXCEPT !.title = c.title,
                                         !.description = c.description,
                                         !.status = c.status,
                                         !.updated_at = now,
                                         !.due_date = c.due_date,
                                         !.priority = c.priority,
                                         !.tags = c.tags]
             IN  [rows |-> (rows \ {Val(orm)}) \cup {new},
                  outcome |-> "item",
                  item |-> Some(ToDomain(new))]

\* SqlAlchemyTodoRepository.update (raises ValueError when the row is missing)
update(item) ==
    LET orm == SessionGet(Val(item.id))
    IN  IF IsNone(orm)
        THEN [rows |-> rows, outcome |-> "raised", item |-> None]
        ELSE LET c == Columns(item)
                 new == [Val(orm) EXCEPT !.title = c.title,
                                         !.description = c.description,
                                         !.status = c.status,
                                         !.updated_at = now,
                                         !.due_date = c.due_date,
                                         !.priority = c.priority,
                                         !.tags = c.tags]
             IN  [rows |-> (rows \ {Val(orm)}) \cup {new},
                  outcome |-> "item",
                  item |-> Some(ToDomain(new))]

\* SqlAlchemyTodoRepository.delete
\* delete treating a missing row as an error.
delete_raises_when_missing(item_id) ==
    LET orm == SessionGet(item_id)
    IN  IF IsNone(orm)
        THEN [rows |-> rows, outcome |-> "raised", item |-> None]
        ELSE [rows |-> rows \ {Val(orm)}, outcome |-> "void", item |-> None]

delete(item_id) ==
    LET orm == SessionGet(item_id)
    IN  IF IsNone(orm)
        THEN [rows |-> rows, outcome |-> "void", item |-> None]
        ELSE [rows |-> rows \ {Val(orm)}, outcome |-> "void", item |-> None]

\* SqlAlchemyTodoRepository.set_status
\* set_status returning the changed item without committing the change.
set_status_not_committed(item_id, status) ==
    LET orm == SessionGet(item_id)
    IN  IF IsNone(orm)
        THEN [rows |-> rows, outcome |-> "none", item |-> None]
        ELSE LET new == [Val(orm) EXCEPT !.status = EnumName(status),
                                         !.updated_at = now]
             IN  [rows |-> rows,
                  outcome |-> "item",
                  item |-> Some(ToDomain(new))]

set_status(item_id, status) ==
    LET orm == SessionGet(item_id)
    IN  IF IsNone(orm)
        THEN [rows |-> rows, outcome |-> "none", item |-> None]
        ELSE LET new == [Val(orm) EXCEPT !.status = EnumName(status),
                                         !.updated_at = now]
             IN  [rows |-> (rows \ {Val(orm)}) \cup {new},
                  outcome |-> "item",
                  item |-> Some(ToDomain(new))]

\* The orders of a query sorted by updated_at instead of created_at.
RECURSIVE UpdatedAtDesc(_)
UpdatedAtDesc(S) ==
    IF S = {} THEN {<<>>}
    ELSE UNION {{<<r>> \o rest : rest \in UpdatedAtDesc(S \ {r})} :
                   r \in {x \in S : \A y \in S : x.updated_at >= y.updated_at}}

OrderByUpdatedAtDesc == UpdatedAtDesc(rows)

\* The orders in which the rows S may come when sorted by created_at
\* descending: a row with the largest created_at first, then the others.
RECURSIVE CreatedAtDesc(_)
CreatedAtDesc(S) ==
    IF S = {} THEN {<<>>}
    ELSE UNION {{<<r>> \o rest : rest \in CreatedAtDesc(S \ {r})} :
                   r \in {x \in S : \A y \in S : x.created_at >= y.created_at}}

\* The orders in which `select(TodoORM).order_by(TodoORM.created_at.desc())`
\* may return the rows: every row once, created_at descending; rows with the
\* same created_at come in an order SQL leaves open.
OrderByCreatedAtDesc == CreatedAtDesc(rows)

\* [self._to_domain(row) for row in result]
MapToDomain(result) == [i \in 1..Len(result) |-> ToDomain(result[i])]

\* SqlAlchemyTodoRepository.list_all: the lists it may return
list_all == {MapToDomain(result) : result \in OrderByCreatedAtDesc}

\* ------------------------------------------------------------- services

\* create_todo storing the title as given, not stripped.
create_todo_title_as_given(title, description, due_date, priority, tags) ==
    add([id |-> None,
         title |-> title,
         description |-> IF ~IsNone(description) /\ Val(description) # <<>>
                         THEN Some(Strip(Val(description)))
                         ELSE None,
         status |-> Status_PENDING,
         created_at |-> now,
         updated_at |-> now,
         due_date |-> due_date,
         priority |-> priority,
         tags |-> StripNonBlank(IF ~IsNone(tags) /\ Val(tags) # <<>>
                                THEN Val(tags) ELSE <<>>)])

\* services.create_todo
create_todo(title, description, due_date, priority, tags) ==
    LET item_tags == StripNonBlank(IF ~IsNone(tags) /\ Val(tags) # <<>>
                                   THEN Val(tags) ELSE <<>>)
        item == [id |-> None,
                 title |-> Strip(title),
                 description |-> IF ~IsNone(description) /\ Val(description) # <<>>
                                 THEN Some(Strip(Val(description)))
                                 ELSE None,
                 status |-> Status_PENDING,
                 created_at |-> now,
                 updated_at |-> now,
                 due_date |-> due_date,
                 priority |-> priority,
                 tags |-> item_tags]
    IN  add(item)

\* list_todos keeping only the items due strictly before the reference date.
list_todos_due_before(items, status, priority, due_today_or_overdue, reference_date, today) ==
    LET StatusIs(item) == item.status = Val(status)
        PriorityIs(item) == item.priority = priority
        ref_date == IF ~IsNone(reference_date) THEN Val(reference_date) ELSE today
        Due(item) == ~IsNone(item.due_date) /\ Val(item.due_date) < ref_date
        items1 == IF ~IsNone(status) THEN SelectSeq(items, StatusIs) ELSE items
        items2 == IF ~IsNone(priority) THEN SelectSeq(items1, PriorityIs) ELSE items1
    IN  IF due_today_or_overdue THEN SelectSeq(items2, Due) ELSE items2

\* services.list_todos, on the list repo.list_all() returned; `today` is what
\* date.today() returns.
list_todos(items, status, priority, due_today_or_overdue, reference_date, today) ==
    LET StatusIs(item) == item.status = Val(status)
        PriorityIs(item) == item.priority = priority
        ref_date == IF ~IsNone(reference_date) THEN Val(reference_date) ELSE today
        Due(item) == ~IsNone(item.due_date) /\ Val(item.due_date) <= ref_date
        items1 == IF ~IsNone(status) THEN SelectSeq(items, StatusIs) ELSE items
        items2 == IF ~IsNone(priority) THEN SelectSeq(items1, PriorityIs) ELSE items1
    IN  IF due_today_or_overdue THEN SelectSeq(items2, Due) ELSE items2

\* toggle_done marking the item done whatever its status.
toggle_done_marks_done(item_id) ==
    LET item == get(item_id).item
    IN  IF IsNone(item)
        THEN [rows |-> rows, outcome |-> "none", item |-> None]
        ELSE set_status(item_id, Status_DONE)

\* services.toggle_done
toggle_done(item_id) ==
    LET item == get(item_id).item
    IN  IF IsNone(item)
        THEN [rows |-> rows, outcome |-> "none", item |-> None]
        ELSE LET new_status == IF Val(item).status = Status_PENDING
                               THEN Status_DONE
                               ELSE Status_PENDING
             IN  set_status(item_id, new_status)

\* update_todo without the check of what repo.get returned.
update_todo_unchecked(item_id, title, description, due_date, priority, tags) ==
    update([id |-> Some(item_id),
            title |-> Strip(title),
            description |-> IF ~IsNone(description) /\ Val(description) # <<>>
                            THEN Some(Strip(Val(description)))
                            ELSE None,
            status |-> IF IsNone(get(item_id).item) THEN Status_PENDING
                       ELSE Val(get(item_id).item).status,
            created_at |-> now,
            updated_at |-> now,
            due_date |-> due_date,
            priority |-> priority,
            tags |-> StripNonBlank(IF ~IsNone(tags) /\ Val(tags) # <<>>
                                   THEN Val(tags) ELSE <<>>)])

\* services.update_todo
update_todo(item_id, title, description, due_date, priority, tags) ==
    LET existing == get(item_id).item
    IN  IF IsNone(existing)
        THEN [rows |-> rows, outcome |-> "none", item |-> None]
        ELSE update([Val(existing) EXCEPT
                        !.title = Strip(title),
                        !.description =
                            IF ~IsNone(description) /\ Val(description) # <<>>
                            THEN Some(Strip(Val(description)))
                            ELSE None,
                        !.due_date = due_date,
                        !.priority = priority,
                        !.tags = StripNonBlank(IF ~IsNone(tags) /\ Val(tags) # <<>>
                                               THEN Val(tags) ELSE <<>>),
                        !.updated_at = now])

\* str.lower on the letters of the model's texts.
LowerChar(c) ==
    CASE c = "A" -> "a"
      [] c = "B" -> "b"
      [] OTHER -> c

Lower(s) == [i \in 1..Len(s) |-> LowerChar(s[i])]

\* q in text
Contains(text, q) ==
    \E k \in 0..(Len(text) - Len(q)) :
        \A i \in 1..Len(q) : text[k + i] = q[i]

\* apply_filters comparing the texts as they are, without lowering them.
apply_filters_case_sensitive(items, status, text_query, tag) ==
    LET StatusIs(item) == item.status = Val(status)
        TextIn(item) ==
            \/ Contains(item.title, Val(text_query))
            \/ /\ ~IsNone(item.description)
               /\ Contains(Val(item.description), Val(text_query))
        TagIn(item) == \E i \in 1..Len(item.tags) : item.tags[i] = Val(tag)
        items1 == IF ~IsNone(status) THEN SelectSeq(items, StatusIs) ELSE items
        items2 == IF ~IsNone(text_query) THEN SelectSeq(items1, TextIn) ELSE items1
    IN  IF ~IsNone(tag) THEN SelectSeq(items2, TagIn) ELSE items2

\* filters.apply_filters: the source holds its signature and docstring; the
\* body is the one the specification describes (section 4.3): each filter
\* given is applied in turn to what the one before kept.
apply_filters(items, status, text_query, tag) ==
    LET StatusIs(item) == item.status = Val(status)
        q == Lower(Val(text_query))
        TextIn(item) ==
            \/ Contains(Lower(item.title), q)
            \/ /\ ~IsNone(item.description)
               /\ Contains(Lower(Val(item.description)), q)
        TagIn(item) == \E i \in 1..Len(item.tags) : item.tags[i] = Val(tag)
        items1 == IF ~IsNone(status) THEN SelectSeq(items, StatusIs) ELSE items
        items2 == IF ~IsNone(text_query) THEN SelectSeq(items1, TextIn) ELSE items1
    IN  IF ~IsNone(tag) THEN SelectSeq(items2, TagIn) ELSE items2

\* ------------------------------------------------------------- inputs

\* The calendar dates of the model.
Dates == {1, 2}

\* What callers pass to create_todo and update_todo: title, description,
\* due_date, priority and tags.  The texts cover padded, blank and empty
\* values, a tag list as parse_tags returns it, padded and blank tags, a tag
\* holding the separator, and a repeated tag.
Requests ==
    {[title |-> <<"a">>,
      description |-> None,
      due_date |-> None,
      priority |-> None,
      tags |-> None],
     [title |-> <<"a", " ", "b">>,
      description |-> Some(<<" ", "b", " ">>),
      due_date |-> Some(1),
      priority |-> Some(Priority_HIGH),
      tags |-> Some(parse_tags(<<" ", "w", " ", ",", " ", ",", "u", " ">>))],
     [title |-> <<" ", "a", " ">>,
      description |-> Some(<<"b">>),
      due_date |-> Some(2),
      priority |-> Some(Priority_MEDIUM),
      tags |-> Some(<< <<"w", ",", "u">> >>)],
     [title |-> <<"b">>,
      description |-> Some(<<" ">>),
      due_date |-> Some(2),
      priority |-> Some(Priority_LOW),
      tags |-> Some(<< <<" ", "w">>, <<" ">>, <<"w">> >>)],
     [title |-> <<" ">>,
      description |-> Some(<<>>),
      due_date |-> Some(1),
      priority |-> Some(Priority_HIGH),
      tags |-> Some(<<>>)]}

\* What callers pass to list_todos for the due-date filter, with what
\* date.today() returns during the call: the filter off, on with a reference
\* date, and on without one (today is then the reference).
DueFilters ==
    {[due_today_or_overdue |-> FALSE, reference_date |-> None, today |-> 1],
     [due_today_or_overdue |-> TRUE, reference_date |-> Some(1), today |-> 2],
     [due_today_or_overdue |-> TRUE, reference_date |-> None, today |-> 1],
     [due_today_or_overdue |-> TRUE, reference_date |-> None, today |-> 2]}

\* ------------------------------------------------------------- actions

\* The status column of the row with this id, None when there is no such row.
StatusOf(item_id) ==
    IF IsNone(SessionGet(item_id)) THEN None ELSE Some(Val(SessionGet(item_id)).status)

NoStreak == [id |-> 0, orig |-> None, n |-> 0]

\* The run of toggles after a call on item `item_id` (0: on no single item).
StreakAfter(op, item_id, before, res) ==
    IF op = "toggle_done"
    THEN IF res.outcome # "item" THEN streak
         ELSE IF streak.id = item_id
         THEN [streak EXCEPT !.n = IF @ = 1 THEN 2 ELSE 1]
         ELSE [id |-> item_id, orig |-> before, n |-> 1]
    ELSE IF op = "get" THEN NoStreak
    ELSE IF op \in {"update_todo", "update", "set_status", "delete"}
            /\ item_id = streak.id
    THEN NoStreak
    ELSE streak

\* A call that returns `res`: the table becomes res.rows and `call` records the
\* operation, its arguments, the status the target row had before it, and
\* what it returned.
Returns(op, args, before, res) ==
    /\ rows' = res.rows
    /\ streak' = StreakAfter(op,
                             IF op \in {"create_todo", "add"} THEN 0
                             ELSE IF op = "update" THEN Val(args.item.id)
                             ELSE args.id,
                             before, res)
    /\ call' = [op |-> op, args |-> args, before |-> before,
                outcome |-> res.outcome, item |-> res.item,
                listed |-> <<>>, items |-> <<>>]
    /\ now' = now
    /\ pending' = pending

CreateTodo(req) ==
    Returns("create_todo", req, None,
            create_todo(req.title, req.description, req.due_date,
                        req.priority, req.tags))

UpdateTodo(item_id, req) ==
    Returns("update_todo", [id |-> item_id, req |-> req], StatusOf(item_id),
            update_todo(item_id, req.title, req.description, req.due_date,
                        req.priority, req.tags))

ToggleDone(item_id) ==
    Returns("toggle_done", [id |-> item_id], StatusOf(item_id),
            toggle_done(item_id))

\* list_todos reads the table once, through repo.list_all().
ListTodos(status, priority, due_today_or_overdue, reference_date, today) ==
    \E listed \in list_all :
        /\ call' = [op |-> "list_todos",
                    args |-> [status |-> status, priority |-> priority,
                              due_today_or_overdue |-> due_today_or_overdue,
                              reference_date |-> reference_date,
                              today |-> today],
                    before |-> None, outcome |-> "list", item |-> None,
                    listed |-> listed,
                    items |-> list_todos(listed, status, priority,
                                         due_today_or_overdue, reference_date,
                                         today)]
        /\ streak' = NoStreak
        /\ UNCHANGED <<rows, now, pending>>

RepoGet(item_id) ==
    Returns("get", [id |-> item_id], StatusOf(item_id), get(item_id))

RepoSetStatus(item_id, status) ==
    Returns("set_status", [id |-> item_id, status |-> status],
            StatusOf(item_id), set_status(item_id, status))

RepoDelete(item_id) ==
    Returns("delete", [id |-> item_id], StatusOf(item_id), delete(item_id))

\* Time passes between calls: datetime.utcnow() never goes backwards.
Tick ==
    /\ now < MaxTime
    /\ now' = now + 1
    /\ UNCHANGED <<rows, call, streak, pending>>

Init ==
    /\ rows = {}
    /\ now = 0
    /\ streak = NoStreak
    /\ pending = None
    /\ call = [op |-> "init", args |-> <<>>, before |-> None,
               outcome |-> "void", item |-> None,
               listed |-> <<>>, items |-> <<>>]

\* The application: the four services, and the repository's get, set_status
\* and delete called on their own.
Next ==
    \/ \E req \in Requests :
          /\ Cardinality(rows) < MaxItems
          /\ NextRowId <= MaxId
          /\ CreateTodo(req)
    \/ \E item_id \in Ids, req \in Requests : UpdateTodo(item_id, req)
    \/ \E item_id \in Ids : ToggleDone(item_id)
    \/ \E status \in {None, Some(Status_DONE)},
          priority \in {None, Some(Priority_HIGH)},
          due \in DueFilters :
          ListTodos(status, priority, due.due_today_or_overdue,
                    due.reference_date, due.today)
    \/ \E item_id \in Ids : RepoGet(item_id)
    \/ \E item_id \in Ids, status \in Status : RepoSetStatus(item_id, status)
    \/ \E item_id \in Ids : RepoDelete(item_id)
    \/ Tick

Spec == Init /\ [][Next]_vars

\* ------------------------------------------------------------- repository calls
\* The repository called on its own, as tests/test_sqlalchemy_repo.py does,
\* with items the caller built.

\* The timestamps a caller may put in an item (the tests adjust created_at by
\* hand, so they are not readings of this model's clock).
Stamps == 0..(MaxRepoItems - 1)

RepoIds == 1..MaxRepoItems

\* The items callers pass to add and update.
RepoItems ==
    {[id |-> id,
      title |-> p.title,
      description |-> p.description,
      status |-> status,
      created_at |-> t,
      updated_at |-> t,
      due_date |-> p.due_date,
      priority |-> p.priority,
      tags |-> p.tags] :
        id \in {None} \cup {Some(i) : i \in RepoIds},
        status \in Status,
        t \in Stamps,
        p \in {[title |-> <<"a">>, description |-> None, due_date |-> None,
                priority |-> None, tags |-> <<>>],
               [title |-> <<"b">>, description |-> Some(<<"b">>),
                due_date |-> Some(1), priority |-> Some(Priority_MEDIUM),
                tags |-> << <<"w">>, <<"u">> >>]}}

RepoAdd(item) ==
    Returns("add", [item |-> item], None, add(item))

RepoUpdate(item) ==
    Returns("update", [item |-> item], StatusOf(Val(item.id)), update(item))

RepoListAll ==
    \E listed \in list_all :
        /\ call' = [op |-> "list_all", args |-> <<>>, before |-> None,
                    outcome |-> "list", item |-> None,
                    listed |-> listed, items |-> listed]
        /\ streak' = NoStreak
        /\ UNCHANGED <<rows, now, pending>>

\* The repository alone: its six operations.
RepoNext ==
    \/ \E item \in RepoItems :
          /\ item.status = Status_PENDING
          /\ Cardinality(rows) < MaxRepoItems
          /\ NextRowId <= MaxRepoItems
          /\ RepoAdd(item)
    \/ RepoListAll
    \/ \E item_id \in RepoIds : RepoGet(item_id)
    \/ \E item \in RepoItems :
          /\ ~IsNone(item.id)
          /\ item.created_at = 0
          /\ RepoUpdate(item)
    \/ \E item_id \in RepoIds : RepoDelete(item_id)
    \/ \E item_id \in RepoIds, status \in Status : RepoSetStatus(item_id, status)

RepoSpec == Init /\ [][RepoNext]_vars

\* ------------------------------------------------------------ two callers

\* One caller's update_todo taken one repository call at a time, each call a
\* transaction of its own, while another caller's create_todo, toggle_done,
\* set_status and delete run between them.

\* update_todo's local item after its assignments to `existing`.
Changed(existing, req) ==
    [existing EXCEPT
        !.title = Strip(req.title),
        !.description =
            IF ~IsNone(req.description) /\ Val(req.description) # <<>>
            THEN Some(Strip(Val(req.description)))
            ELSE None,
        !.due_date = req.due_date,
        !.priority = req.priority,
        !.tags = StripNonBlank(IF ~IsNone(req.tags) /\ Val(req.tags) # <<>>
                               THEN Val(req.tags) ELSE <<>>),
        !.updated_at = now]

\* update_todo up to its call of repo.update: it returns None for a missing
\* id, and else holds the item it read, changed as the arguments say.
UpdateTodoGet(item_id, req) ==
    /\ IsNone(pending)
    /\ LET existing == get(item_id).item
           args == [id |-> item_id, req |-> req]
       IN  IF IsNone(existing)
           THEN Returns("update_todo", args, StatusOf(item_id),
                        [rows |-> rows, outcome |-> "none", item |-> None])
           ELSE /\ pending' = Some([args |-> args,
                                    existing |-> Changed(Val(existing), req)])
                /\ UNCHANGED <<rows, now, call, streak>>

\* update_todo's call of repo.update with the item it holds, and its return.
UpdateTodoWrite ==
    /\ ~IsNone(pending)
    /\ LET args == Val(pending).args
           before == StatusOf(args.id)
           res == update(Val(pending).existing)
       IN  /\ rows' = res.rows
           /\ streak' = StreakAfter("update_todo", args.id, before, res)
           /\ call' = [op |-> "update_todo", args |-> args, before |-> before,
                       outcome |-> res.outcome, item |-> res.item,
                       listed |-> <<>>, items |-> <<>>]
           /\ now' = now
           /\ pending' = None

\* The requests of the two callers.
TwoCallerRequests ==
    {req \in Requests : Strip(req.title) # <<>> /\ req.due_date # Some(2)}

TwoCallerNext ==
    \/ \E req \in TwoCallerRequests :
          /\ Cardinality(rows) < MaxItems
          /\ NextRowId <= MaxId
          /\ CreateTodo(req)
    \/ \E item_id \in Ids, req \in TwoCallerRequests : UpdateTodoGet(item_id, req)
    \/ UpdateTodoWrite
    \/ \E item_id \in Ids : ToggleDone(item_id)
    \/ \E item_id \in Ids, status \in Status : RepoSetStatus(item_id, status)
    \/ \E item_id \in Ids : RepoDelete(item_id)
    \/ Tick

TwoCallerSpec == Init /\ [][TwoCallerNext]_vars

\* ---------------------------------------------------- the filter utility

\* Items as a caller of apply_filters holds them.
FilterItems ==
    {[id |-> Some(1), title |-> <<"A", "b">>, description |-> None,
      status |-> Status_PENDING, created_at |-> 0, updated_at |-> 0,
      due_date |-> None, priority |-> None, tags |-> << <<"w">> >>],
     [id |-> Some(2), title |-> <<"b">>, description |-> Some(<<"u", "A">>),
      status |-> Status_DONE, created_at |-> 0, updated_at |-> 0,
      due_date |-> Some(1), priority |-> Some(Priority_HIGH),
      tags |-> << <<"w">>, <<"u">> >>],
     [id |-> Some(3), title |-> <<"b">>, description |-> None,
      status |-> Status_PENDING, created_at |-> 0, updated_at |-> 0,
      due_date |-> None, priority |-> None, tags |-> <<>>]}

FilterLists ==
    UNION {[1..n -> FilterItems] : n \in 0..MaxFilterLen}

ApplyFilters(items, status, text_query, tag) ==
    /\ call' = [op |-> "apply_filters",
                args |-> [status |-> status, text_query |-> text_query,
                          tag |-> tag],
                before |-> None, outcome |-> "list", item |-> None,
                listed |-> items,
                items |-> apply_filters(items, status, text_query, tag)]
    /\ streak' = NoStreak
    /\ UNCHANGED <<rows, now, pending>>

\* apply_filters called on lists of items with every choice of filters.
FilterNext ==
    \E items \in FilterLists,
       status \in {None} \cup {Some(st) : st \in Status},
       text_query \in {None, Some(<<"a">>), Some(<<"B">>)},
       tag \in {None, Some(<<"w">>)} :
        ApplyFilters(items, status, text_query, tag)

FilterSpec == Init /\ [][FilterNext]_vars

\* ------------------------------------------------------------- claims

\* The item a call returned.
Returned == Val(call.item)

\* Whether some listing of the table holds this item.
Listed(item) ==
    \E listed \in list_all : \E i \in 1..Len(listed) : listed[i] = item

\* C1: create_todo with a title that is non-empty after trimming returns an
\* item with status PENDING, an id, the trimmed title, no empty tag and
\* created_at = updated_at, and the repository's listing then holds that item.
C1_CreateReturnsPendingItem ==
    (call.op = "create_todo" /\ Strip(call.args.title) # <<>>) =>
        /\ call.outcome = "item"
        /\ Returned.status = Status_PENDING
        /\ ~IsNone(Returned.id)
        /\ Returned.title = Strip(call.args.title)
        /\ \A i \in 1..Len(Returned.tags) : Returned.tags[i] # <<>>
        /\ Returned.created_at = Returned.updated_at
        /\ Listed(Returned)

\* A create_todo with a padded title and tags has returned, into a table that
\* held an item already.
C1_Witness ==
    /\ call.op = "create_todo"
    /\ Strip(call.args.title) # <<>>
    /\ Strip(call.args.title) # call.args.title
    /\ call.outcome = "item"
    /\ Cardinality(rows) = 2

Opposite(status) ==
    IF status = Status_PENDING THEN Status_DONE ELSE Status_PENDING

\* C2: toggle_done on a stored item returns it with the opposite status, and
\* after two toggle_done calls on it, with no other write to it in between,
\* the item has the status it started with.
C2_ToggleInvolution ==
    /\ (call.op = "toggle_done" /\ ~IsNone(call.before)) =>
          /\ call.outcome = "item"
          /\ Returned.status = Opposite(StatusByName(Val(call.before)))
          /\ StatusOf(call.args.id) = Some(EnumName(Returned.status))
    /\ streak.n = 1 =>
          StatusOf(streak.id) =
              Some(EnumName(Opposite(StatusByName(Val(streak.orig)))))
    /\ streak.n = 2 => StatusOf(streak.id) = streak.orig

\* An item that was DONE has been toggled twice, the second call just now,
\* and is DONE again; the table holds another item too.
C2_Witness ==
    /\ call.op = "toggle_done"
    /\ streak.n = 2
    /\ streak.id = call.args.id
    /\ streak.orig = Some("DONE")
    /\ Returned.status = Status_DONE
    /\ Cardinality(rows) = 2

\* The reference date of a list_todos call.
RefDate(args) ==
    IF ~IsNone(args.reference_date) THEN Val(args.reference_date) ELSE args.today

\* Whether an item satisfies every filter the call supplied.
Satisfies(item, args) ==
    /\ ~IsNone(args.status) => item.status = Val(args.status)
    /\ ~IsNone(args.priority) => item.priority = args.priority
    /\ args.due_today_or_overdue =>
          ~IsNone(item.due_date) /\ Val(item.due_date) <= RefDate(args)

\* C3: list_todos returns the items of list_all that satisfy every supplied
\* filter, in list_all's order; with the due filter and reference date D those
\* are the items with a due_date that is <= D.
C3_ListTodosFilters ==
    call.op = "list_todos" =>
        LET Keep(item) == Satisfies(item, call.args)
        IN  /\ call.listed \in list_all
            /\ call.items = SelectSeq(call.listed, Keep)

\* list_todos with the due filter and reference date 1 has returned the one
\* item due on 1 and left out the item due on 2.
C3_Witness ==
    /\ call.op = "list_todos"
    /\ call.args.due_today_or_overdue
    /\ call.args.reference_date = Some(1)
    /\ Len(call.listed) = 2
    /\ Len(call.items) = 1
    /\ call.items[1].due_date = Some(1)
    /\ \E i \in 1..2 : call.listed[i].due_date = Some(2)

\* Whether the stored items have pairwise different created_at.
DistinctCreatedAt ==
    \A r1, r2 \in rows : r1.created_at = r2.created_at => r1 = r2

\* The ids of a list of items, in the list's order.
IdsOf(items) == [i \in 1..Len(items) |-> Val(items[i].id)]

\* The ids in the order list_all's query returns the rows (for pairwise
\* different created_at there is one such order).
ListedIds ==
    {[i \in 1..Len(result) |-> result[i].id] : result \in OrderByCreatedAtDesc}

\* C4: with pairwise different created_at, list_all returns every stored item
\* once, newest first, and update and set_status leave the order as it was.
C4_ListAllNewestFirst ==
    [][/\ (call'.op = "list_all" /\ DistinctCreatedAt') =>
              /\ Len(call'.items) = Cardinality(rows')
              /\ {call'.items[i] : i \in 1..Len(call'.items)}
                     = {ToDomain(r) : r \in rows'}
              /\ \A i, j \in 1..Len(call'.items) :
                     i < j => call'.items[i].created_at > call'.items[j].created_at
       /\ (call'.op \in {"update", "set_status"} /\ DistinctCreatedAt) =>
              ListedIds' = ListedIds]_vars

\* Items added as 1, 2, 3 with increasing created_at are listed as 3, 2, 1,
\* after an update or set_status of one of them.
C4_Witness ==
    /\ call.op = "list_all"
    /\ Cardinality(rows) = 3
    /\ \A r1, r2 \in rows : r1.id < r2.id => r1.created_at < r2.created_at
    /\ IdsOf(call.items) = <<3, 2, 1>>
    /\ \E r \in rows : r.updated_at # r.created_at

\* The ids of get, set_status, toggle_done and update_todo calls.
ByIdOps == {"get", "set_status", "toggle_done", "update_todo"}

\* C5: for an id no stored item has, get, set_status, toggle_done and
\* update_todo return None without raising and leave the stored items as
\* they were.
C5_MissingIdReturnsNone ==
    [][(call'.op \in ByIdOps /\ IsNone(SessionGet(call'.args.id))) =>
           /\ call'.outcome = "none"
           /\ IsNone(call'.item)
           /\ rows' = rows]_vars

\* update_todo was called with an id no stored item has, the table holding
\* another item, and returned None.
C5_Witness ==
    /\ call.op = "update_todo"
    /\ IsNone(SessionGet(call.args.id))
    /\ call.outcome = "none"
    /\ rows # {}

\* C6: repository update with an item whose id no stored item has raises, and
\* leaves the stored items as they were.
C6_UpdateMissingRaises ==
    [][(call'.op = "update" /\ IsNone(SessionGet(Val(call'.args.item.id)))) =>
           /\ call'.outcome = "raised"
           /\ rows' = rows]_vars

\* update was called with an id no stored item has, the table holding other
\* items, and raised.
C6_Witness ==
    /\ call.op = "update"
    /\ IsNone(SessionGet(Val(call.args.item.id)))
    /\ call.outcome = "raised"
    /\ rows # {}

\* C7: fetching a created item by the id create_todo returned yields an item
\* equal, field by field, to the item create_todo returned.
C7_CreateGetRoundTrip ==
    call.op = "create_todo" =>
        LET fetched == get(Val(Returned.id))
        IN  /\ fetched.outcome = "item"
            /\ \A f \in {"id", "title", "description", "status", "created_at",
                         "updated_at", "due_date", "priority", "tags"} :
                   Val(fetched.item)[f] = Returned[f]

\* create_todo has returned an item with a due date, priority HIGH and two
\* tags.
C7_Witness ==
    /\ call.op = "create_todo"
    /\ call.outcome = "item"
    /\ Returned.priority = Some(Priority_HIGH)
    /\ Returned.due_date = Some(1)
    /\ Returned.tags = << <<"w">>, <<"u">> >>
    /\ get(Val(Returned.id)).item = call.item

\* The title create_todo or update_todo was called with.
TitleArg == IF call.op = "create_todo" THEN call.args.title ELSE call.args.req.title

\* C8: create_todo and update_todo with an empty or whitespace-only title
\* fail before any repository write, and no stored item has an empty or
\* whitespace-only title.
C8_BlankTitleRejected ==
    /\ (call.op \in {"create_todo", "update_todo"} /\ Strip(TitleArg) = <<>>) =>
          call.outcome = "raised"
    /\ \A r \in rows : Strip(r.title) # <<>>

\* C9: after create_todo or update_todo the stored description is None or a
\* non-empty trimmed text.
C9_DescriptionNoneOrNonEmpty ==
    \A r \in rows :
        \/ IsNone(r.description)
        \/ Val(r.description) # <<>> /\ Strip(Val(r.description)) = Val(r.description)

\* The tags create_todo or update_todo was called with.
TagsArg ==
    LET tags == IF call.op = "create_todo" THEN call.args.tags ELSE call.args.req.tags
    IN  IF IsNone(tags) THEN <<>> ELSE Val(tags)

\* C10: the tags of every stored item hold no empty or whitespace-only entry,
\* and the tags of an item create_todo or update_todo has written are the
\* trimmed non-blank input tags, in input order, duplicates kept.
C10_TagsAsGiven ==
    /\ \A r \in rows : \A i \in 1..Len(ToDomain(r).tags) :
          Strip(ToDomain(r).tags[i]) # <<>>
    /\ (call.op \in {"create_todo", "update_todo"} /\ call.outcome = "item") =>
          /\ Returned.tags = StripNonBlank(TagsArg)
          /\ Val(get(Val(Returned.id)).item).tags = StripNonBlank(TagsArg)

\* C11: with a clock that never goes backwards, every stored item has
\* updated_at >= created_at, and a successful update_todo, toggle_done or
\* set_status leaves the item's updated_at no earlier than it was.
C11_UpdatedAtNotBefore ==
    [][/\ \A r \in rows' : r.updated_at >= r.created_at
       /\ (call'.op \in {"update_todo", "toggle_done", "set_status"}
           /\ call'.outcome = "item") =>
              \A r \in rows, r2 \in rows' :
                  (r.id = call'.args.id /\ r2.id = call'.args.id) =>
                      r2.updated_at >= r.updated_at]_vars

\* toggle_done has returned an item created at 0 and now updated at 1.
C11_Witness ==
    /\ call.op = "toggle_done"
    /\ call.outcome = "item"
    /\ Returned.created_at = 0
    /\ Returned.updated_at = 1
    /\ Val(SessionGet(call.args.id)).updated_at = 1

\* C12: delete(id) of a stored item removes that row and nothing else, so
\* that get(id) is absent and list_all no longer holds it; delete of an id
\* that is not stored changes nothing; in both cases it raises nothing.
C12_DeleteRemovesOnlyThatItem ==
    [][call'.op = "delete" =>
          /\ call'.outcome = "void"
          /\ rows' = {r \in rows : r.id # call'.args.id}
          /\ \A i \in RepoIds :
                 i = call'.args.id =>
                     /\ (get(i).outcome = "none")'
                     /\ (\A ids \in ListedIds :
                             \A k \in 1..Len(ids) : ids[k] # i)']_vars

\* delete has removed a stored item and two other items are still stored.
C12_Witness ==
    /\ call.op = "delete"
    /\ ~IsNone(call.before)
    /\ IsNone(SessionGet(call.args.id))
    /\ Cardinality(rows) = 2

\* C13 as stated: add with an item whose id is not null fails and leaves the
\* store unchanged.
C13_AddWithIdFails ==
    [][(call'.op = "add" /\ ~IsNone(call'.args.item.id)) =>
          /\ call'.outcome = "raised"
          /\ rows' = rows]_vars

\* C13: add with an item whose id is not null does not fail: it ignores the
\* id given, stores the item as one new row under a newly assigned id,
\* returns that item, and leaves the rows already stored as they were.
C13_AddIgnoresGivenId ==
    [][(call'.op = "add" /\ ~IsNone(call'.args.item.id)) =>
          /\ call'.outcome = "item"
          /\ Val(call'.item).id = Some(NextRowId)
          /\ \E r \in rows' :
                 /\ r \notin rows
                 /\ r.id = NextRowId
                 /\ rows' = rows \cup {r}
                 /\ ToDomain(r) = Val(call'.item)]_vars

\* add of an item carrying the id of a stored row has returned the item
\* under another id, and both rows are stored.
C13_Witness ==
    /\ call.op = "add"
    /\ call.outcome = "item"
    /\ ~IsNone(call.args.item.id)
    /\ Returned.id # call.args.item.id
    /\ ~IsNone(SessionGet(Val(call.args.item.id)))
    /\ ~IsNone(SessionGet(Val(Returned.id)))

\* C15: no two stored items share an id, and the id add returns is the id
\* of no item stored when add was called, also when the newest item was
\* deleted before.
C15_AddAssignsUniqueId ==
    [][/\ \A r1, r2 \in rows' : r1.id = r2.id => r1 = r2
       /\ call'.op = "add" =>
              /\ call'.outcome = "item"
              /\ \A r \in rows : r.id # Val(Val(call'.item).id)
              /\ Cardinality(rows') = Cardinality(rows) + 1]_vars

\* add has returned id 3 while ids 2 and 3 are stored: item 1 was deleted
\* before the add.
C15_Witness ==
    /\ call.op = "add"
    /\ Returned.id = Some(3)
    /\ {r.id : r \in rows} = {2, 3}

\* The description the spec's normalization gives: None when absent or blank,
\* else the trimmed text.
NormalizedDescription(description) ==
    IF IsNone(description) \/ Strip(Val(description)) = <<>>
    THEN None
    ELSE Some(Strip(Val(description)))

\* The part of C14 about what update_todo leaves alone: on a stored item it
\* returns the stored item, keeps its id, created_at and status, writes the
\* trimmed title, the due_date and the priority given, and changes no other
\* row.
UpdateTodoFrame ==
    [][(call'.op = "update_todo" /\ now' = now) =>
          \A r \in rows :
              r.id = call'.args.id =>
                  /\ call'.outcome = "item"
                  /\ \E r2 \in rows' :
                         /\ rows' = (rows \ {r}) \cup {r2}
                         /\ call'.item = Some(ToDomain(r2))
                         /\ r2.id = r.id
                         /\ r2.created_at = r.created_at
                         /\ r2.status = r.status
                         /\ r2.title = Strip(call'.args.req.title)
                         /\ r2.due_date = call'.args.req.due_date
                         /\ ToDomain(r2).priority = call'.args.req.priority]_vars

\* C14: update_todo on a stored item replaces title, description, due_date,
\* priority and tags by the normalized new values, returns the updated item,
\* and leaves the item's id, created_at and status and every other row as
\* they were.
C14_UpdateReplacesWholesale ==
    [][(call'.op = "update_todo" /\ now' = now) =>
          \A r \in rows :
              r.id = call'.args.id =>
                  /\ call'.outcome = "item"
                  /\ \E r2 \in rows' :
                         /\ rows' = (rows \ {r}) \cup {r2}
                         /\ call'.item = Some(ToDomain(r2))
                         /\ r2.id = r.id
                         /\ r2.created_at = r.created_at
                         /\ r2.status = r.status
                         /\ ToDomain(r2).title = Strip(call'.args.req.title)
                         /\ ToDomain(r2).description =
                                NormalizedDescription(call'.args.req.description)
                         /\ ToDomain(r2).due_date = call'.args.req.due_date
                         /\ ToDomain(r2).priority = call'.args.req.priority
                         /\ ToDomain(r2).tags =
                                StripNonBlank(IF IsNone(call'.args.req.tags)
                                              THEN <<>>
                                              ELSE Val(call'.args.req.tags))]_vars

\* C17: set_status(id, s) on a stored item changes only that row's status,
\* to s, and its updated_at, to the time of the call; the row's other
\* columns and every other row are unchanged, and get(id) afterwards
\* returns the item with status s.
C17_SetStatusChangesOnlyStatus ==
    [][/\ (call'.op = "set_status" /\ now' = now) =>
          \A r \in rows :
              r.id = call'.args.id =>
                  /\ call'.outcome = "item"
                  /\ \E r2 \in rows' :
                         /\ rows' = (rows \ {r}) \cup {r2}
                         /\ r2.status = EnumName(call'.args.status)
                         /\ r2.updated_at = now
                         /\ r2.id = r.id
                         /\ r2.title = r.title
                         /\ r2.description = r.description
                         /\ r2.created_at = r.created_at
                         /\ r2.due_date = r.due_date
                         /\ r2.priority = r.priority
                         /\ r2.tags = r.tags
       /\ (call.op = "set_status" /\ call.outcome = "item"
           /\ call'.op = "get" /\ call'.args.id = call.args.id) =>
              /\ call'.outcome = "item"
              /\ Val(call'.item).status = call.args.status]_vars

\* set_status has changed the status of one of two stored items, at a time
\* later than the item's creation.
C17_Witness ==
    /\ call.op = "set_status"
    /\ call.outcome = "item"
    /\ call.before # Some(EnumName(call.args.status))
    /\ Cardinality(rows) = 2
    /\ Returned.status = call.args.status
    /\ Returned.updated_at > Returned.created_at

\* item passes every filter the call was given.
PassesFilters(item, args) ==
    /\ ~IsNone(args.status) => item.status = Val(args.status)
    /\ ~IsNone(args.text_query) =>
          \E text \in {item.title} \cup
                      (IF IsNone(item.description) THEN {}
                       ELSE {Val(item.description)}) :
              \E k \in 0..Len(text) :
                  /\ k + Len(Val(args.text_query)) <= Len(text)
                  /\ \A i \in 1..Len(Val(args.text_query)) :
                         LowerChar(text[k + i]) = LowerChar(Val(args.text_query)[i])
    /\ ~IsNone(args.tag) => Val(args.tag) \in {item.tags[i] : i \in 1..Len(item.tags)}

\* The positions of the input whose item passes the filters.
PassingPositions ==
    {i \in 1..Len(call.listed) : PassesFilters(call.listed[i], call.args)}

UpdateTodoFinishes == ~IsNone(pending) /\ IsNone(pending')

\* C18 as stated: update_todo never changes the stored status of its item:
\* the status stored when it finishes is the one stored just before its
\* repository update, also when another caller's toggle_done completed
\* after update_todo's get.
C18_UpdateKeepsStoredStatus ==
    [][UpdateTodoFinishes =>
          \A r \in rows, r2 \in rows' :
              (r.id = Val(pending).args.id /\ r2.id = r.id) =>
                  r2.status = r.status]_vars

\* C18: update_todo writes back the status its get read: when a toggle_done
\* or set_status of another caller completes between update_todo's get and
\* its repository update, the status stored after update_todo finishes is
\* the one update_todo read, and the other caller's change is lost.
C18_UpdateWritesBackStatusRead ==
    [][UpdateTodoFinishes =>
          \A r \in rows, r2 \in rows' :
              (r.id = Val(pending).args.id /\ r2.id = r.id) =>
                  /\ call'.outcome = "item"
                  /\ r2.status = EnumName(Val(pending).existing.status)
                  /\ Val(call'.item).status = Val(pending).existing.status]_vars

\* update_todo has returned its item with a status other than the one
\* stored just before its repository update: the other caller had changed
\* the status after update_todo's get.
C18_Witness ==
    /\ call.op = "update_todo"
    /\ call.outcome = "item"
    /\ IsNone(pending)
    /\ call.before # Some(EnumName(Returned.status))
    /\ StatusOf(call.args.id) = Some(EnumName(Returned.status))

====
